---- MODULE Spec2Model ----
(***************************************************************************)
(* Power management of one Wings server backed by a Docker container:     *)
(* Start / Stop / WaitForStop / Terminate / Restart (power.go), Attach,   *)
(* Create, Destroy and followOutput of the Docker environment, and the    *)
(* server's console listener (onConsoleOutput).  Every runtime (Docker)   *)
(* request and every setState call is one atomic step, so the callers,    *)
(* the attach goroutine and the console listener interleave at exactly    *)
(* the points where the Go code releases control.                         *)
(***************************************************************************)
EXTENDS Integers, Sequences, FiniteSets, TLC

VARIABLES
    tracing,     \* the calls keep a full log of their requests; one caller only
    stopType,    \* ProcessConfiguration.Stop.Type: "signal" | "command"
    stripAnsi,   \* ProcessConfiguration.Startup.StripAnsi
    state,       \* the server state guarded by setState / GetState
    container,   \* the runtime's view: "absent" | "stopped" | "running"
    stopReq,     \* the stop command has been written to the process stdin
    exitBy,      \* why the container last stopped: "none" | "self" | "stop"
    stream,      \* d.stream: 0 is nil, k > 0 the k-th attach stream
    sessions,    \* attach streams obtained so far
    open,        \* attach streams the runtime has not closed yet
    followers,   \* log-follower goroutines still reading
    hpc,         \* position of the goroutine started by the k-th Attach
    hb,          \* the stream that goroutine copies from
    delivered,   \* console lines handed to the listener so far
    ipc,         \* position of the console listener
    idata,       \* the listener's local `data`
    iline,       \* the line as it was published, before any stripping
    th,          \* per caller: pc, stack of return labels, result, locals
    calls,       \* operations invoked so far
    intervened,  \* Start or the listener wrote the state after a stop last set Stopping
    panicked,    \* a goroutine dereferenced nil: the daemon is gone
    sp,          \* one call of Filesystem.SpaceAvailableForDecompression
    dz,          \* one call of Filesystem.DecompressFile, and the files on disk
    ins,         \* one call of installer.New
    ex           \* the server data directory that Installer.Execute prepares

\* what the power operations never touch
aux == <<sp, dz, ins, ex>>

vars == <<tracing, aux, stopType, stripAnsi, state, container, stopReq, exitBy, stream, sessions,
          open, followers, hpc, hb, delivered, ipc, idata, iline, th, calls,
          intervened, panicked>>

\* ------------------------------------------------------------------ bounds
MaxCalls == 2
MaxSessions == 2
MaxLines == 2

\* --------------------------------------------------------------- constants
Callers == {"c1", "c2"}

ProcessOfflineState == "Offline"
ProcessStartingState == "Starting"
ProcessRunningState == "Running"
ProcessStoppingState == "Stopping"
States == {ProcessOfflineState, ProcessStartingState, ProcessRunningState, ProcessStoppingState}

ProcessStopSignal == "signal"
ProcessStopCommand == "command"

\* One token stands for one whole ANSI escape sequence matched by stripAnsiRegex.
ESC == "ESC"
\* Startup.Done (prefix patterns, in declared order) and Stop.Value of the server.
StartupDone == << <<"d">>, <<"s", "d">> >>
StopValue == <<"s">>
\* The console lines the process may write.
Lines == { <<"d">>, <<ESC, "d">>, <<"s">>, <<ESC, "s">> }

OpNames == {"Start", "Stop", "WaitForStop", "Terminate", "Restart", "Destroy"}
\* the operations of the environment that never write the state
SetupNames == {"Create", "InSituUpdate"}

\* ----------------------------------------------------------- pure helpers
\* stripAnsiRegex.ReplaceAllString(data, "")
StripAnsi(data) == SelectSeq(data, LAMBDA c : c # ESC)

\* OutputLineMatcher.Matches: a literal prefix of the line
Matches(p, data) == Len(p) <= Len(data) /\ SubSeq(data, 1, Len(p)) = p

\* the loop over Startup.Done: does some pattern match
AnyDoneMatches(data) == \E i \in 1..Len(StartupDone) : Matches(StartupDone[i], data)

\* Server.IsRunning
IsRunning(st) == st = ProcessRunningState

\* IsAttached: d.stream != nil
IsAttached == stream # 0

\* a caller's frame
Idle == [pc |-> "idle", stack |-> <<>>, ret |-> "nil", op |-> "none",
         sawError |-> FALSE, term |-> FALSE, log |-> <<>>, at |-> <<>>]

\* what a call's log keeps: the states it set and its container-start requests
Noted == States \cup {"start"}

Go(r, l) == [r EXCEPT !.pc = l]
Log(r, x) == IF tracing \/ x \in Noted THEN [r EXCEPT !.log = Append(@, x)] ELSE r
Push(r, l) == [r EXCEPT !.stack = <<l>> \o @]

RECURSIVE Ret(_, _)

\* Start, after e.OnBeforeStart(): if err != nil { return errors.WithStack(err) }
St_afterOBS(r) == IF r.ret = "err" THEN Go(r, "St_defer") ELSE Go(r, "St_start")

\* WaitForStop, after e.Stop(): if err != nil { return errors.WithStack(err) }
Wf_afterStop(r) == IF r.ret = "err" THEN Ret(r, "err") ELSE Go(r, "Wf_wait")

\* Restart, after e.WaitForStop(60, false): if err != nil { return err }; return e.Start()
Re_afterWait(r) == IF r.ret = "err" THEN Ret(r, "err") ELSE Go(r, "St_inspect")

\* `return e`: the caller goes on after the call, or the operation is over
Ret(r, e) ==
    IF r.stack = <<>>
    THEN [r EXCEPT !.pc = "done", !.ret = e]
    ELSE LET back == [r EXCEPT !.stack = Tail(r.stack), !.ret = e]
         IN CASE Head(r.stack) = "St_afterOBS" -> St_afterOBS(back)
              [] Head(r.stack) = "Wf_afterStop" -> Wf_afterStop(back)
              [] Head(r.stack) = "Re_afterWait" -> Re_afterWait(back)

\* the frame in which an operation begins: WaitForStop and Restart begin with the call
\* of Stop, Restart's WaitForStop never terminates
Entry(o, tm) ==
    CASE o = "Start" -> [Idle EXCEPT !.op = o, !.pc = "St_inspect"]
      [] o = "Stop" -> [Idle EXCEPT !.op = o, !.pc = "Sp_begin"]
      [] o = "WaitForStop" ->
            [Idle EXCEPT !.op = o, !.pc = "Sp_begin", !.term = tm, !.stack = <<"Wf_afterStop">>]
      [] o = "Terminate" -> [Idle EXCEPT !.op = o, !.pc = "Te_inspect"]
      [] o = "Restart" ->
            [Idle EXCEPT !.op = o, !.pc = "Sp_begin", !.stack = <<"Wf_afterStop", "Re_afterWait">>]
      [] o = "Destroy" -> [Idle EXCEPT !.op = o, !.pc = "De_setStopping"]
      [] o = "Create" -> [Idle EXCEPT !.op = o, !.pc = "Cr_inspect"]
      [] o = "InSituUpdate" -> [Idle EXCEPT !.op = o, !.pc = "Iu_inspect"]
      [] o = "Execute" -> [Idle EXCEPT !.op = o, !.pc = "Ex_mkdir"]

Alive == ~panicked

First == "c1"

\* frame conditions
\* a step of caller t that touches only its own frame
Local(t, r) ==
    /\ th' = [th EXCEPT ![t] = r]
    /\ UNCHANGED <<tracing, aux, stopType, stripAnsi, state, container, stopReq, exitBy, stream, sessions,
                   open, followers, hpc, hb, delivered, ipc, idata, iline, calls,
                   intervened, panicked>>
\* a step of caller t that is one setState(s) call
SetStateStep(t, s, r, iv) ==
    /\ state' = s
    /\ th' = [th EXCEPT ![t] = Log(r, s)]
    /\ intervened' = iv
    /\ UNCHANGED <<tracing, aux, stopType, stripAnsi, container, stopReq, exitBy, stream, sessions,
                   open, followers, hpc, hb, delivered, ipc, idata, iline, calls, panicked>>
\* the container stops running: every stream and log reader of it ends
Halt(cause, now) ==
    /\ container' = now
    /\ exitBy' = cause
    /\ stopReq' = FALSE
    /\ open' = {}
    /\ followers' = 0

\* -------------------------------------------------------------------- Init
Boot ==
    /\ stopType \in {ProcessStopSignal, ProcessStopCommand}
    /\ stripAnsi \in BOOLEAN
    /\ state = ProcessOfflineState
    /\ container \in {"absent", "stopped", "running"}
    /\ stopReq = FALSE
    /\ exitBy = "none"
    /\ stream = 0
    /\ sessions = 0
    /\ open = {}
    /\ followers = 0
    /\ hpc = [k \in 1..MaxSessions |-> "none"]
    /\ hb = [k \in 1..MaxSessions |-> 0]
    /\ delivered = 0
    /\ ipc = "idle"
    /\ idata = <<>>
    /\ iline = <<>>
    /\ th = [t \in Callers |-> Idle]
    /\ calls = 0
    /\ intervened = FALSE
    /\ panicked = FALSE

\* no call of SpaceAvailableForDecompression is under way
SpOff == [pc |-> "off", quota |-> 0, usage |-> 0, archive |-> <<>>, gu |-> "off", gw |-> "off",
          wg |-> 0, dirSize |-> 0, size |-> 0, n |-> 0, cErr |-> FALSE, err |-> FALSE,
          ret |-> FALSE, seen |-> <<>>, final |-> FALSE]

\* no call of DecompressFile is under way
DzOff == [pc |-> "off", entries |-> <<>>, i |-> 0, wrote |-> <<>>, disk |-> {}, ret |-> "none"]

\* no call of installer.New is under way
InsOff == [pc |-> "off", uuid |-> "", egg |-> "", environment |-> "absent",
           mappings |-> "absent", ret |-> "none", fetched |-> FALSE]

\* the data directory has not been made
ExOff == [dir |-> FALSE, owned |-> FALSE]

\* the filesystem and the installer are left alone
Apart == sp = SpOff /\ dz = DzOff /\ ins = InsOff /\ ex = ExOff

Init == tracing = FALSE /\ Boot /\ Apart

\* one caller whose calls log every request they make
InitTrace == tracing = TRUE /\ Boot /\ Apart

\* ----------------------------------------------------------- invocations
Invoke(t) ==
    /\ Alive
    /\ th[t].pc = "idle"
    /\ calls < MaxCalls
    \* two idle callers are interchangeable: the first of them is the one that calls
    /\ (\A u \in Callers : th[u].pc = "idle") => t = First
    \* results are collected before the next call, so two frames in use overlap in time
    /\ \A u \in Callers : th[u].pc # "done"
    /\ tracing => t = First
    /\ \E o \in (IF tracing THEN OpNames \cup SetupNames ELSE OpNames), tm \in BOOLEAN :
        /\ (o # "WaitForStop") => ~tm
        \* a traced call remembers what it was invoked on
        /\ th' = [th EXCEPT ![t] = [Entry(o, tm) EXCEPT
                      !.at = IF tracing THEN <<state, container, IsAttached>> ELSE <<>>]]
    /\ calls' = calls + 1
    /\ UNCHANGED <<tracing, aux, stopType, stripAnsi, state, container, stopReq, exitBy, stream, sessions,
                   open, followers, hpc, hb, delivered, ipc, idata, iline,
                   intervened, panicked>>

\* the caller has seen the result
Finish(t) ==
    /\ Alive
    /\ th[t].pc = "done"
    /\ calls < MaxCalls
    /\ Local(t, Idle)

\* ------------------------------------------------------------------- Start
\* a Start that does not look at c.State.Running
St_inspectNoRunningCheck(t) ==
    /\ Alive
    /\ th[t].pc = "St_inspect"
    /\ \/ Local(t, Ret(th[t], "err"))
       \/ container = "absent" /\ Local(t, Go(th[t], "St_setStarting"))
       \/ container # "absent" /\ Local(t, Go(Log(th[t], "truncate"), "St_setStarting"))
       \/ container # "absent" /\ Local(t, Ret(Log(th[t], "truncate"), "err"))

\* ContainerInspect, and the truncation of the log of a container that is not running
St_inspect(t) ==
    /\ Alive
    /\ th[t].pc = "St_inspect"
    /\ \/ Local(t, Ret(th[t], "err"))                       \* inspect fails, not NotFound
       \/ container = "absent" /\ Local(t, Go(th[t], "St_setStarting"))
       \/ container = "running" /\ Local(t, Go(th[t], "St_setRunning"))
       \/ container = "stopped" /\ Local(t, Go(Log(th[t], "truncate"), "St_setStarting"))
       \/ container = "stopped" /\ Local(t, Ret(Log(th[t], "truncate"), "err"))  \* os.Truncate fails

\* setState(Running); return e.Attach()
St_setRunning(t) ==
    /\ Alive
    /\ th[t].pc = "St_setRunning"
    /\ SetStateStep(t, ProcessRunningState, Go(th[t], "At_check"), TRUE)

\* setState(Starting); sawError = true; e.OnBeforeStart()
St_setStarting(t) ==
    /\ Alive
    /\ th[t].pc = "St_setStarting"
    /\ SetStateStep(t, ProcessStartingState,
                    Push([Go(th[t], "OBS_remove") EXCEPT !.sawError = TRUE], "St_afterOBS"), TRUE)

\* a Start that attaches whatever ContainerStart returned
St_startThenAttach(t) ==
    /\ Alive
    /\ th[t].pc = "St_start"
    /\ \/ /\ container = "stopped"
          /\ container' = "running"
          /\ exitBy' = "none"
          /\ th' = [th EXCEPT ![t] = [Go(Log(th[t], "start"), "At_check") EXCEPT !.sawError = FALSE]]
          /\ UNCHANGED <<stopReq, open, followers>>
       \/ /\ th' = [th EXCEPT ![t] = Go(Log([th[t] EXCEPT !.ret = "err"], "start"), "At_check")]
          /\ UNCHANGED <<container, exitBy, stopReq, open, followers>>
    /\ UNCHANGED <<tracing, aux, stopType, stripAnsi, state, stream, sessions, hpc, hb, delivered,
                   ipc, idata, iline, calls, intervened, panicked>>

\* ContainerStart with the 10 s deadline; sawError = false; return e.Attach()
St_start(t) ==
    /\ Alive
    /\ th[t].pc = "St_start"
    /\ \/ /\ container = "stopped"
          /\ container' = "running"
          /\ exitBy' = "none"
          /\ th' = [th EXCEPT ![t] = [Go(Log(th[t], "start"), "At_check") EXCEPT !.sawError = FALSE]]
          /\ UNCHANGED <<stopReq, open, followers>>
       \/ /\ container = "running"                          \* already started: 304, no error
          /\ th' = [th EXCEPT ![t] = [Go(Log(th[t], "start"), "At_check") EXCEPT !.sawError = FALSE]]
          /\ UNCHANGED <<container, exitBy, stopReq, open, followers>>
       \/ /\ th' = [th EXCEPT ![t] = Go(Log([th[t] EXCEPT !.ret = "err"], "start"), "St_defer")]
          /\ UNCHANGED <<container, exitBy, stopReq, open, followers>>
    /\ UNCHANGED <<tracing, aux, stopType, stripAnsi, state, stream, sessions, hpc, hb, delivered,
                   ipc, idata, iline, calls, intervened, panicked>>

\* the deferred function: if sawError { setState(Stopping); ... }
St_defer(t) ==
    /\ Alive
    /\ th[t].pc = "St_defer"
    /\ IF th[t].sawError
       THEN SetStateStep(t, ProcessStoppingState, Go(th[t], "St_defer2"), TRUE)
       ELSE Local(t, Ret(th[t], "err"))

\* ... setState(Offline) }
St_defer2(t) ==
    /\ Alive
    /\ th[t].pc = "St_defer2"
    /\ SetStateStep(t, ProcessOfflineState, Ret(th[t], "err"), TRUE)

\* ----------------------------------------------------------- OnBeforeStart
\* an OnBeforeStart that goes on to Create whatever the removal returned
OBS_removeIgnoreErrors(t) ==
    /\ Alive
    /\ th[t].pc = "OBS_remove"
    /\ \/ /\ container = "stopped"
          /\ container' = "absent"
          /\ th' = [th EXCEPT ![t] = Go(Log(th[t], "remove"), "Cr_inspect")]
       \/ /\ th' = [th EXCEPT ![t] = Go(Log(th[t], "remove"), "Cr_inspect")]
          /\ UNCHANGED container
    /\ UNCHANGED <<tracing, aux, stopType, stripAnsi, state, stopReq, exitBy, stream, sessions, open,
                   followers, hpc, hb, delivered, ipc, idata, iline, calls, intervened,
                   panicked>>

\* ContainerRemove(RemoveVolumes) without Force, then e.Create()
OBS_remove(t) ==
    /\ Alive
    /\ th[t].pc = "OBS_remove"
    /\ \/ /\ container = "stopped"
          /\ container' = "absent"
          /\ th' = [th EXCEPT ![t] = Go(Log(th[t], "remove"), "Cr_inspect")]
       \/ /\ container = "absent"                           \* NotFound is ignored
          /\ th' = [th EXCEPT ![t] = Go(Log(th[t], "remove"), "Cr_inspect")]
          /\ UNCHANGED container
       \/ /\ th' = [th EXCEPT ![t] = Ret(Log(th[t], "remove"), "err")]  \* running, or transport
          /\ UNCHANGED container
    /\ UNCHANGED <<tracing, aux, stopType, stripAnsi, state, stopReq, exitBy, stream, sessions, open,
                   followers, hpc, hb, delivered, ipc, idata, iline, calls, intervened,
                   panicked>>

\* ------------------------------------------------------------------ Create
\* a Create that does not look for the container first
Cr_inspectNoCheck(t) ==
    /\ Alive
    /\ th[t].pc = "Cr_inspect"
    /\ Local(t, Go(th[t], "Cr_image"))

\* ContainerInspect: an existing container is left as it is
Cr_inspect(t) ==
    /\ Alive
    /\ th[t].pc = "Cr_inspect"
    /\ \/ container # "absent" /\ Local(t, Ret(Log(th[t], "exists"), "nil"))
       \/ container = "absent" /\ Local(t, Go(th[t], "Cr_image"))
       \/ Local(t, Ret(th[t], "err"))

\* an ensureImageExists that gives up when the pull fails
ensureImageExistsPullOnly(pull, list, local) ==
    IF pull THEN "nil" ELSE "err"

\* ensureImageExists: the pull, and on its failure the search of the local images
ensureImageExists(pull, list, local) ==
    IF pull THEN "nil" ELSE IF ~list THEN "err" ELSE IF local THEN "nil" ELSE "err"

\* what ImagePull, ImageList and the search of the tags came to
ImageLog(r, pull, list, local) ==
    IF pull THEN Log(r, "pull")
    ELSE IF ~list THEN Log(Log(r, "pullfail"), "listfail")
    ELSE Log(Log(r, "pullfail"), IF local THEN "local" ELSE "nolocal")

Cr_image(t) ==
    /\ Alive
    /\ th[t].pc = "Cr_image"
    /\ \E pull \in BOOLEAN, list \in BOOLEAN, local \in BOOLEAN :
        Local(t, IF ensureImageExists(pull, list, local) = "nil"
                 THEN Go(ImageLog(th[t], pull, list, local), "Cr_create")
                 ELSE Ret(ImageLog(th[t], pull, list, local), "err"))

Cr_create(t) ==
    /\ Alive
    /\ th[t].pc = "Cr_create"
    /\ \/ /\ container = "absent"
          /\ container' = "stopped"
          /\ th' = [th EXCEPT ![t] = Ret(Log(th[t], "create"), "nil")]
       \/ /\ th' = [th EXCEPT ![t] = Ret(Log(th[t], "create"), "err")]  \* name conflict, or transport
          /\ UNCHANGED container
    /\ UNCHANGED <<tracing, aux, stopType, stripAnsi, state, stopReq, exitBy, stream, sessions, open,
                   followers, hpc, hb, delivered, ipc, idata, iline, calls, intervened,
                   panicked>>

\* ------------------------------------------------------------ InSituUpdate
\* ContainerInspect: NotFound returns nil, any other error is returned
Iu_inspect(t) ==
    /\ Alive
    /\ th[t].pc = "Iu_inspect"
    /\ \/ container = "absent" /\ Local(t, Ret(Log(Log(th[t], "inspect"), "notfound"), "nil"))
       \/ container # "absent" /\ Local(t, Go(Log(th[t], "inspect"), "Iu_update"))
       \/ Local(t, Ret(Log(th[t], "inspect"), "err"))

\* ContainerUpdate with the 10 s deadline
Iu_update(t) ==
    /\ Alive
    /\ th[t].pc = "Iu_update"
    /\ \/ container # "absent" /\ Local(t, Ret(Log(th[t], "update"), "nil"))
       \/ Local(t, Ret(Log(th[t], "update"), "err"))

\* ------------------------------------------------------------------ Attach
At_check(t) ==
    /\ Alive
    /\ th[t].pc = "At_check"
    /\ Local(t, IF IsAttached THEN Ret(th[t], "nil") ELSE Go(th[t], "Fo_exists"))

\* followOutput: d.Exists()
Fo_exists(t) ==
    /\ Alive
    /\ th[t].pc = "Fo_exists"
    /\ \/ container # "absent" /\ Local(t, Go(th[t], "Fo_logs"))
       \/ container = "absent" /\ Local(t, Ret(th[t], "err"))
       \/ Local(t, Ret(th[t], "err"))

\* followOutput: ContainerLogs(Follow) and the goroutine scanning the reader.  The
\* goroutine is started whatever ContainerLogs returned: on an error it closes a nil reader.
Fo_logs(t) ==
    /\ Alive
    /\ th[t].pc = "Fo_logs"
    /\ \/ /\ container = "running"
          /\ followers' = followers + 1
          /\ th' = [th EXCEPT ![t] = Go(Log(th[t], "logs"), "At_attach")]
          /\ UNCHANGED panicked
       \/ /\ container = "stopped"                          \* nothing to follow: EOF at once
          /\ th' = [th EXCEPT ![t] = Go(Log(th[t], "logs"), "At_attach")]
          /\ UNCHANGED <<followers, panicked>>
       \/ /\ panicked' = TRUE
          /\ th' = [th EXCEPT ![t] = Ret(Log(th[t], "logs"), "err")]
          /\ UNCHANGED followers
    /\ UNCHANGED <<tracing, aux, stopType, stripAnsi, state, container, stopReq, exitBy, stream, sessions,
                   open, hpc, hb, delivered, ipc, idata, iline, calls, intervened>>

\* ContainerAttach, d.SetStream(&st), go func() { ... }
At_attach(t) ==
    /\ Alive
    /\ th[t].pc = "At_attach"
    /\ \/ /\ container # "absent"
          /\ sessions < MaxSessions
          /\ sessions' = sessions + 1
          /\ stream' = sessions + 1
          /\ open' = IF container = "running" THEN open \cup {sessions + 1} ELSE open
          /\ hpc' = [hpc EXCEPT ![sessions + 1] = "start"]
          /\ th' = [th EXCEPT ![t] = Ret(Log(th[t], "attach"), "nil")]
       \/ /\ th' = [th EXCEPT ![t] = Ret(Log(th[t], "attach"), "err")]
          /\ UNCHANGED <<sessions, stream, open, hpc>>
    /\ UNCHANGED <<tracing, aux, stopType, stripAnsi, state, container, stopReq, exitBy, followers, hb,
                   delivered, ipc, idata, iline, calls, intervened, panicked>>

\* the goroutine of Attach: defer d.stream.Close(); io.Copy(console, d.stream.Reader)
h_start(k) ==
    /\ Alive
    /\ hpc[k] = "start"
    /\ IF stream = 0
       THEN \* nil dereference; the deferred setState(Offline) runs while the panic unwinds
            /\ state' = ProcessOfflineState
            /\ panicked' = TRUE
            /\ hpc' = [hpc EXCEPT ![k] = "done"]
            /\ UNCHANGED hb
       ELSE /\ hb' = [hb EXCEPT ![k] = stream]
            /\ hpc' = [hpc EXCEPT ![k] = "copy"]
            /\ UNCHANGED <<state, panicked>>
    /\ UNCHANGED <<tracing, aux, stopType, stripAnsi, container, stopReq, exitBy, stream, sessions, open,
                   followers, delivered, ipc, idata, iline, th, calls, intervened>>

\* io.Copy returns once the stream is closed and drained
h_copy(k) ==
    /\ Alive
    /\ hpc[k] = "copy"
    /\ hb[k] \notin open
    /\ hpc' = [hpc EXCEPT ![k] = "setOffline"]
    /\ UNCHANGED <<tracing, aux, stopType, stripAnsi, state, container, stopReq, exitBy, stream, sessions,
                   open, followers, hb, delivered, ipc, idata, iline, th, calls, intervened,
                   panicked>>

\* a close handler that announces a stop where it should record the exit
h_setStopping(k) ==
    /\ Alive
    /\ hpc[k] = "setOffline"
    /\ state' = ProcessStoppingState
    /\ hpc' = [hpc EXCEPT ![k] = "clear"]
    /\ UNCHANGED <<tracing, aux, stopType, stripAnsi, container, stopReq, exitBy, stream, sessions, open,
                   followers, hb, delivered, ipc, idata, iline, th, calls, intervened,
                   panicked>>

\* deferred: d.setState(system.ProcessOfflineState)
h_setOffline(k) ==
    /\ Alive
    /\ hpc[k] = "setOffline"
    /\ state' = ProcessOfflineState
    /\ hpc' = [hpc EXCEPT ![k] = "clear"]
    /\ UNCHANGED <<tracing, aux, stopType, stripAnsi, container, stopReq, exitBy, stream, sessions, open,
                   followers, hb, delivered, ipc, idata, iline, th, calls, intervened,
                   panicked>>

\* deferred: d.SetStream(nil)
h_clear(k) ==
    /\ Alive
    /\ hpc[k] = "clear"
    /\ stream' = 0
    /\ hpc' = [hpc EXCEPT ![k] = "done"]
    /\ UNCHANGED <<tracing, aux, stopType, stripAnsi, state, container, stopReq, exitBy, sessions, open,
                   followers, hb, delivered, ipc, idata, iline, th, calls, intervened,
                   panicked>>

\* -------------------------------------------------------------------- Stop
\* s.Type == ProcessStopSignal: return e.Terminate(os.Kill); else setState(Stopping)
Sp_begin(t) ==
    /\ Alive
    /\ th[t].pc = "Sp_begin"
    /\ IF stopType = ProcessStopSignal
       THEN Local(t, Go(th[t], "Te_inspect"))
       ELSE SetStateStep(t, ProcessStoppingState, Go(th[t], "Sp_check"), FALSE)

\* if e.IsAttached() && s.Type == ProcessStopCommand
Sp_check(t) ==
    /\ Alive
    /\ th[t].pc = "Sp_check"
    /\ Local(t, IF IsAttached /\ stopType = ProcessStopCommand
                THEN Go(th[t], "Sp_send")
                ELSE Go(th[t], "Sp_stop"))

\* return e.SendCommand(s.Value): NotAttached when the stream is gone by now
Sp_send(t) ==
    /\ Alive
    /\ th[t].pc = "Sp_send"
    /\ \/ /\ stream # 0
          /\ stopReq' = (stopReq \/ container = "running")
          /\ th' = [th EXCEPT ![t] = Ret(Log(th[t], "send"), "nil")]
       \/ /\ th' = [th EXCEPT ![t] = Ret(Log(Log(th[t], "send"), "fail"), "err")]
          /\ UNCHANGED stopReq
    /\ UNCHANGED <<tracing, aux, stopType, stripAnsi, state, container, exitBy, stream, sessions, open,
                   followers, hpc, hb, delivered, ipc, idata, iline, calls, intervened,
                   panicked>>

\* ContainerStop with 10 s of grace
Sp_stop(t) ==
    /\ Alive
    /\ th[t].pc = "Sp_stop"
    /\ \/ /\ container = "running"
          /\ Halt("stop", "stopped")
          /\ th' = [th EXCEPT ![t] = Ret(Log(th[t], "stop"), "nil")]
       \/ /\ container = "stopped"                          \* already stopped: 304, no error
          /\ th' = [th EXCEPT ![t] = Ret(Log(th[t], "stop"), "nil")]
          /\ UNCHANGED <<container, exitBy, stopReq, open, followers>>
       \/ /\ container = "absent"                           \* client.IsErrNotFound
          /\ th' = [th EXCEPT ![t] = Go(Log(Log(th[t], "stop"), "notfound"), "Sp_nfStream")]
          /\ UNCHANGED <<container, exitBy, stopReq, open, followers>>
       \/ /\ th' = [th EXCEPT ![t] = Ret(Log(Log(th[t], "stop"), "fail"), "err")]
          /\ UNCHANGED <<container, exitBy, stopReq, open, followers>>
    /\ UNCHANGED <<tracing, aux, stopType, stripAnsi, state, stream, sessions, hpc, hb, delivered,
                   ipc, idata, iline, calls, intervened, panicked>>

\* NotFound: e.SetStream(nil)
Sp_nfStream(t) ==
    /\ Alive
    /\ th[t].pc = "Sp_nfStream"
    /\ stream' = 0
    /\ th' = [th EXCEPT ![t] = Go(th[t], "Sp_nfOffline")]
    /\ UNCHANGED <<tracing, aux, stopType, stripAnsi, state, container, stopReq, exitBy, sessions, open,
                   followers, hpc, hb, delivered, ipc, idata, iline, calls, intervened,
                   panicked>>

\* NotFound: e.setState(Offline); return nil
Sp_nfOffline(t) ==
    /\ Alive
    /\ th[t].pc = "Sp_nfOffline"
    /\ SetStateStep(t, ProcessOfflineState, Ret(th[t], "nil"), intervened)

\* --------------------------------------------------------------- Terminate
\* a Terminate that does not look at c.State.Running
Te_inspectNoRunningCheck(t) ==
    /\ Alive
    /\ th[t].pc = "Te_inspect"
    /\ \/ container = "absent" /\ Local(t, Ret(Log(th[t], "notfound"), "err"))
       \/ container # "absent" /\ Local(t, Go(th[t], "Te_setStopping"))
       \/ Local(t, Ret(Log(th[t], "fail"), "err"))

\* ContainerInspect; any error is returned; a container that is not running is left alone
Te_inspect(t) ==
    /\ Alive
    /\ th[t].pc = "Te_inspect"
    /\ \/ container = "absent" /\ Local(t, Ret(Log(th[t], "notfound"), "err"))
       \/ container = "stopped" /\ Local(t, Ret(th[t], "nil"))
       \/ container = "running" /\ Local(t, Go(th[t], "Te_setStopping"))
       \/ Local(t, Ret(Log(th[t], "fail"), "err"))

\* a Terminate that kills without announcing the stop
Te_skipStopping(t) ==
    /\ Alive
    /\ th[t].pc = "Te_setStopping"
    /\ Local(t, Go(th[t], "Te_kill"))

\* e.setState(system.ProcessStoppingState)
Te_setStopping(t) ==
    /\ Alive
    /\ th[t].pc = "Te_setStopping"
    /\ SetStateStep(t, ProcessStoppingState, Go(th[t], "Te_kill"), FALSE)

\* ContainerKill: an error when the container is gone or no longer running
Te_kill(t) ==
    /\ Alive
    /\ th[t].pc = "Te_kill"
    /\ \/ /\ container = "running"
          /\ Halt("stop", "stopped")
          /\ th' = [th EXCEPT ![t] = Go(Log(th[t], "kill"), "Te_setOffline")]
       \/ /\ th' = [th EXCEPT ![t] = Ret(Log(th[t], "kill"), "err")]
          /\ UNCHANGED <<container, exitBy, stopReq, open, followers>>
    /\ UNCHANGED <<tracing, aux, stopType, stripAnsi, state, stream, sessions, hpc, hb, delivered,
                   ipc, idata, iline, calls, intervened, panicked>>

Te_setOffline(t) ==
    /\ Alive
    /\ th[t].pc = "Te_setOffline"
    /\ SetStateStep(t, ProcessOfflineState, Ret(th[t], "nil"), intervened)

\* ------------------------------------------------------------- WaitForStop
\* a wait that takes the deadline for the stop
Wf_waitDeadlineIsOk(t) ==
    /\ Alive
    /\ th[t].pc = "Wf_wait"
    /\ LET w == Log(th[t], "wait")
       IN \/ container = "stopped" /\ Local(t, Ret(w, "nil"))
          \/ container = "absent" /\ Local(t, Ret(w, "err"))
          \/ Local(t, Ret(Log(w, "fail"), "err"))
          \/ container = "running" /\ th[t].term
                /\ Local(t, Go(Log(w, "deadline"), "Te_inspect"))
          \/ container = "running" /\ ~th[t].term
                /\ Local(t, Ret(Log(w, "deadline"), "nil"))

\* a wait that kills at the deadline whatever `terminate` says
Wf_waitAlwaysKill(t) ==
    /\ Alive
    /\ th[t].pc = "Wf_wait"
    /\ LET w == Log(th[t], "wait")
       IN \/ container = "stopped" /\ Local(t, Ret(w, "nil"))
          \/ container = "absent" /\ Local(t, Ret(w, "err"))
          \/ Local(t, Ret(Log(w, "fail"), "err"))
          \/ container = "running" /\ Local(t, Go(Log(w, "deadline"), "Te_inspect"))

\* ContainerWait(WaitConditionNotRunning) against the deadline
Wf_wait(t) ==
    /\ Alive
    /\ th[t].pc = "Wf_wait"
    /\ LET w == Log(th[t], "wait")
       IN \/ container = "stopped" /\ Local(t, Ret(w, "nil"))                    \* <-ok
          \/ container = "absent" /\ Local(t, Ret(w, "err"))                     \* <-errChan
          \/ Local(t, Ret(Log(w, "fail"), "err"))                        \* <-errChan
          \/ container = "running" /\ th[t].term                                \* <-ctx.Done()
                /\ Local(t, Go(Log(w, "deadline"), "Te_inspect"))
          \/ container = "running" /\ ~th[t].term
                /\ Local(t, Ret(Log(w, "deadline"), "err"))

\* ----------------------------------------------------------------- Destroy
De_setStopping(t) ==
    /\ Alive
    /\ th[t].pc = "De_setStopping"
    /\ SetStateStep(t, ProcessStoppingState, Go(th[t], "De_remove"), FALSE)

\* ContainerRemove(RemoveVolumes, Force); NotFound returns nil at once
De_remove(t) ==
    /\ Alive
    /\ th[t].pc = "De_remove"
    /\ \/ /\ container = "absent"
          /\ th' = [th EXCEPT ![t] = Ret(Log(Log(th[t], "remove"), "notfound"), "nil")]
          /\ UNCHANGED <<container, exitBy, stopReq, open, followers>>
       \/ /\ container = "running"
          /\ Halt("stop", "absent")
          /\ th' = [th EXCEPT ![t] = Go(Log([th[t] EXCEPT !.ret = "nil"], "remove"), "De_setOffline")]
       \/ /\ container = "stopped"
          /\ container' = "absent"
          /\ th' = [th EXCEPT ![t] = Go(Log([th[t] EXCEPT !.ret = "nil"], "remove"), "De_setOffline")]
          /\ UNCHANGED <<exitBy, stopReq, open, followers>>
       \/ /\ th' = [th EXCEPT ![t] = Go(Log([th[t] EXCEPT !.ret = "err"], "remove"), "De_setOffline")]
          /\ UNCHANGED <<container, exitBy, stopReq, open, followers>>
    /\ UNCHANGED <<tracing, aux, stopType, stripAnsi, state, stream, sessions, hpc, hb, delivered,
                   ipc, idata, iline, calls, intervened, panicked>>

\* d.setState(Offline); return err
De_setOffline(t) ==
    /\ Alive
    /\ th[t].pc = "De_setOffline"
    /\ SetStateStep(t, ProcessOfflineState, Ret(th[t], th[t].ret), intervened)

\* ------------------------------------------------------------ the process
\* the process exits: by itself, or because it was told to stop on its stdin
ContainerExit ==
    /\ container = "running"
    /\ Halt(IF stopReq THEN "stop" ELSE "self", "stopped")
    /\ UNCHANGED <<tracing, aux, stopType, stripAnsi, state, stream, sessions, hpc, hb, delivered,
                   ipc, idata, iline, th, calls, intervened, panicked>>

\* -------------------------------------------------------- onConsoleOutput
\* a listener that never strips: the Done patterns see the line as published
onConsoleOutputRaw(line) ==
    /\ Alive
    /\ ipc = "idle"
    /\ delivered < MaxLines
    /\ delivered' = delivered + 1
    /\ idata' = line
    /\ iline' = line
    /\ ipc' = IF state = ProcessStartingState /\ AnyDoneMatches(line)
              THEN "i_setRunning" ELSE "i_check"
    /\ UNCHANGED <<tracing, aux, stopType, stripAnsi, state, container, stopReq, exitBy, stream, sessions,
                   open, followers, hpc, hb, th, calls, intervened, panicked>>

\* a listener that strips before it looks at the state
onConsoleOutputStripFirst(line) ==
    /\ Alive
    /\ ipc = "idle"
    /\ delivered < MaxLines
    /\ delivered' = delivered + 1
    /\ LET data == IF stripAnsi THEN StripAnsi(line) ELSE line
       IN /\ idata' = data
          /\ iline' = line
          /\ ipc' = IF state = ProcessStartingState /\ AnyDoneMatches(data)
                    THEN "i_setRunning" ELSE "i_check"
    /\ UNCHANGED <<tracing, aux, stopType, stripAnsi, state, container, stopReq, exitBy, stream, sessions,
                   open, followers, hpc, hb, th, calls, intervened, panicked>>

\* data := <-consoleChannel; s.GetState() == ProcessStartingState, the optional strip
\* and the loop over Startup.Done
onConsoleOutput(line) ==
    /\ Alive
    /\ ipc = "idle"
    /\ delivered < MaxLines
    /\ delivered' = delivered + 1
    /\ LET data == IF state = ProcessStartingState /\ stripAnsi THEN StripAnsi(line)
                   ELSE line
       IN /\ idata' = data
          /\ iline' = line
          /\ ipc' = IF state = ProcessStartingState /\ AnyDoneMatches(data)
                    THEN "i_setRunning" ELSE "i_check"
    /\ UNCHANGED <<tracing, aux, stopType, stripAnsi, state, container, stopReq, exitBy, stream, sessions,
                   open, followers, hpc, hb, th, calls, intervened, panicked>>

\* a line published by the log follower of followOutput
i_fromLog ==
    /\ followers > 0
    /\ \E line \in Lines : onConsoleOutput(line)

\* a line published by the console sink that io.Copy of the attach goroutine writes to
i_fromAttach ==
    /\ \E k \in 1..MaxSessions : hpc[k] = "copy"
    /\ \E line \in Lines : onConsoleOutput(line)

\* _ = s.SetState(ProcessRunningState); break
i_setRunning ==
    /\ Alive
    /\ ipc = "i_setRunning"
    /\ state' = ProcessRunningState
    /\ intervened' = TRUE
    /\ ipc' = "i_check"
    /\ UNCHANGED <<tracing, aux, stopType, stripAnsi, container, stopReq, exitBy, stream, sessions, open,
                   followers, hpc, hb, delivered, idata, iline, th, calls, panicked>>

\* a listener that compares the line with Stop.Value whatever the stop type
i_checkAnyType ==
    /\ Alive
    /\ ipc = "i_check"
    /\ IF IsRunning(state) /\ idata = StopValue
       THEN ipc' = "i_setStopping" /\ UNCHANGED <<idata, iline>>
       ELSE ipc' = "idle" /\ idata' = <<>> /\ iline' = <<>>
    /\ UNCHANGED <<tracing, aux, stopType, stripAnsi, state, container, stopReq, exitBy, stream, sessions,
                   open, followers, hpc, hb, delivered, th, calls, intervened, panicked>>

\* if s.IsRunning() { if stop.Type == ProcessStopCommand && data == stop.Value
i_check ==
    /\ Alive
    /\ ipc = "i_check"
    /\ IF IsRunning(state) /\ stopType = ProcessStopCommand /\ idata = StopValue
       THEN ipc' = "i_setStopping" /\ UNCHANGED <<idata, iline>>
       ELSE ipc' = "idle" /\ idata' = <<>> /\ iline' = <<>>
    /\ UNCHANGED <<tracing, aux, stopType, stripAnsi, state, container, stopReq, exitBy, stream, sessions,
                   open, followers, hpc, hb, delivered, th, calls, intervened, panicked>>

\* _ = s.SetState(ProcessStoppingState)
i_setStopping ==
    /\ Alive
    /\ ipc = "i_setStopping"
    /\ state' = ProcessStoppingState
    /\ intervened' = TRUE
    /\ ipc' = "idle"
    /\ idata' = <<>>
    /\ iline' = <<>>
    /\ UNCHANGED <<tracing, aux, stopType, stripAnsi, container, stopReq, exitBy, stream, sessions, open,
                   followers, hpc, hb, delivered, th, calls, panicked>>

\* ------------------------------------------------------------------- Next
Next ==
    \/ \E t \in Callers :
        \/ Invoke(t) \/ Finish(t)
        \/ St_inspect(t) \/ St_setRunning(t) \/ St_setStarting(t)
        \/ St_start(t) \/ St_defer(t) \/ St_defer2(t)
        \/ OBS_remove(t) \/ Cr_inspect(t) \/ Cr_image(t) \/ Cr_create(t)
        \/ At_check(t) \/ Fo_exists(t) \/ Fo_logs(t) \/ At_attach(t)
        \/ Sp_begin(t) \/ Sp_check(t) \/ Sp_send(t) \/ Sp_stop(t)
        \/ Sp_nfStream(t) \/ Sp_nfOffline(t)
        \/ Te_inspect(t) \/ Te_setStopping(t) \/ Te_kill(t) \/ Te_setOffline(t)
        \/ Wf_wait(t)
        \/ De_setStopping(t) \/ De_remove(t) \/ De_setOffline(t)
    \/ \E k \in 1..MaxSessions : h_start(k) \/ h_copy(k) \/ h_setOffline(k) \/ h_clear(k)
    \/ ContainerExit
    \/ i_fromLog \/ i_fromAttach \/ i_setRunning \/ i_check \/ i_setStopping

Spec == Init /\ [][Next]_vars

\* with the operations that only the single caller of a traced run invokes
NextTrace ==
    \/ Next
    \/ \E t \in Callers : Iu_inspect(t) \/ Iu_update(t)

SpecTrace == InitTrace /\ [][NextTrace]_vars

\* ------------------------------------------------------------ observations
\* the states a call has set, in order
StatesSet(r) == SelectSeq(r.log, LAMBDA x : x \in States)

\* the call of r has ended with an error
Failed(r) == r.pc = "done" /\ r.ret = "err"

\* the container-start requests a call has issued
StartRequests(r) == Len(SelectSeq(r.log, LAMBDA x : x = "start"))

\* caller t is executing inside the stop / wait / start cycle of Restart
InCycle(t) == th[t].op = "Restart" /\ th[t].pc \notin {"idle", "done", "Sp_begin"}

\* nothing but caller t can take a step that reads or writes the server
Alone(t) ==
    /\ \A u \in Callers \ {t} : th[u].pc \in {"idle", "done"}
    /\ \A k \in 1..MaxSessions : hpc[k] \in {"none", "done"}
    /\ ipc = "idle"
    /\ followers = 0

\* the transition table
Legal == { <<ProcessOfflineState, ProcessStartingState>>,
           <<ProcessStartingState, ProcessRunningState>>,
           <<ProcessStartingState, ProcessStoppingState>>,
           <<ProcessRunningState, ProcessStoppingState>>,
           <<ProcessStoppingState, ProcessOfflineState>>,
           <<ProcessRunningState, ProcessOfflineState>>,
           <<ProcessStartingState, ProcessOfflineState>> }

\* ------------------------------------------------------------------ claims
\* C1: whenever Start has returned an error after it set the state to Starting, the
\* last two states it set are Stopping and then Offline.
C1_StartErrorRoutesOffline ==
    \A t \in Callers :
        LET w == StatesSet(th[t])
        IN (th[t].op = "Start" /\ Failed(th[t]) /\ w # <<>> /\ w[1] = ProcessStartingState)
           => /\ Len(w) >= 3
              /\ w[Len(w) - 1] = ProcessStoppingState
              /\ w[Len(w)] = ProcessOfflineState

\* C2: every change of the state from a to b, a # b, is a row of the transition table.
C2_OnlyLegalTransitions == [][state' # state => <<state, state'>> \in Legal]_vars

\* C3: a Stop that runs alone on an Offline server whose process is not running leaves
\* the state Offline at every step, and returns success.
C3_StopOfflineIsNoop ==
    [][\A t \in Callers :
          (/\ th[t].op = "Stop"
           /\ th[t].pc \notin {"idle", "done"}
           /\ Alone(t)
           /\ state = ProcessOfflineState
           /\ container # "running")
          => /\ state' = ProcessOfflineState
             /\ th'[t].pc = "done" => th'[t].ret = "nil"]_vars

\* C4: of two Restart calls that overlap, at most one is ever inside the stop / wait /
\* start cycle; the other one has not got past its entry.
C4_OneRestartCycles == ~(\A t \in Callers : InCycle(t))

\* C5: two Restart calls that overlap issue, between them, at most one container-start
\* request.
C5_NoDoubleStart ==
    (\A t \in Callers : th[t].op = "Restart")
    => StartRequests(th["c1"]) + StartRequests(th["c2"]) <= 1

C7_CloseHandlerSetsOffline ==
    [][\A k \in 1..MaxSessions :
          /\ (hpc[k] = "copy" /\ hpc'[k] # "copy")
                => hb[k] \notin open /\ hpc'[k] = "setOffline" /\ state' = state
          /\ (hpc[k] = "setOffline" /\ hpc'[k] # "setOffline")
                => state' = ProcessOfflineState /\ hpc'[k] = "clear"
          /\ (hpc[k] = "clear" /\ hpc'[k] # "clear")
                => stream' = 0 /\ hpc'[k] = "done" /\ state' = state
          /\ (hpc[k] # hpc'[k]) => state' \in {state, ProcessOfflineState}]_vars

\* Start found the container running and set Running, no console line was processed
\* and no other call made; the process exited by itself and the handler has set Offline.
C7_Witness ==
    /\ calls = 1
    /\ th["c1"].op = "Start"
    /\ StatesSet(th["c1"]) = <<ProcessRunningState>>
    /\ delivered = 0
    /\ exitBy = "self"
    /\ \E k \in 1..MaxSessions : hpc[k] = "done"
    /\ state = ProcessOfflineState
    /\ stream = 0

\* C8: a line taken while the state is Starting leads the listener to SetState(Running)
\* exactly when a Done pattern matches it (stripped if StripAnsi is set), and Running
\* is then set before another line is taken; a line taken in another state, or one
\* that matches no pattern, never makes the listener set Running.
C8_DoneLineMakesRunning ==
    [][/\ (ipc = "idle" /\ ipc' # "idle")
            => /\ state' = state
               /\ (ipc' = "i_setRunning")
                     <=> (/\ state = ProcessStartingState
                          /\ AnyDoneMatches(IF stripAnsi THEN StripAnsi(iline') ELSE iline'))
               /\ (ipc' # "i_setRunning") => ipc' = "i_check"
       /\ (ipc = "i_setRunning" /\ ipc' # ipc) => state' = ProcessRunningState
       /\ (ipc # "i_setRunning" /\ ipc' # ipc /\ state # ProcessRunningState)
            => state' # ProcessRunningState
       /\ (ipc # "idle") => delivered' = delivered]_vars

\* Only Start was called and it set Starting; the listener took a line with an escape
\* sequence, stripped it, matched it and has set Running.
C8_Witness ==
    /\ calls = 1
    /\ StatesSet(th["c1"]) = <<ProcessStartingState>>
    /\ stripAnsi
    /\ ipc = "i_check"
    /\ iline = <<ESC, "d">>
    /\ idata = <<"d">>
    /\ state = ProcessRunningState

\* C9: the listener goes on to SetState(Stopping) exactly when, at its check, the
\* state is Running, the stop type is Command and the line equals Stop.Value; it then
\* sets Stopping.  In every other case (Signal, another line, a second delivery that
\* finds the state already Stopping) the check changes nothing.
C9_StopLineMakesStopping ==
    [][/\ (ipc = "i_check" /\ ipc' # ipc)
            => /\ state' = state
               /\ (ipc' = "i_setStopping")
                     <=> (/\ state = ProcessRunningState
                          /\ stopType = ProcessStopCommand
                          /\ idata = StopValue)
               /\ (ipc' # "i_setStopping") => ipc' = "idle"
       /\ (ipc = "i_setStopping" /\ ipc' # ipc)
            => state' = ProcessStoppingState /\ stopType = ProcessStopCommand
       /\ (ipc # "i_setStopping" /\ ipc' # ipc /\ state # ProcessStoppingState)
            => state' # ProcessStoppingState]_vars

\* Only Start was called and it never set Stopping; the stop line was delivered a
\* first time and the listener set Stopping; its second delivery is being checked.
C9_Witness ==
    /\ calls = 1
    /\ StatesSet(th["c1"]) = <<ProcessRunningState>>
    /\ stopType = ProcessStopCommand
    /\ delivered = 2
    /\ ipc = "i_check"
    /\ idata = StopValue
    /\ state = ProcessStoppingState

\* C10 as stated: with StripAnsi and Command, a line with escape sequences whose
\* stripped form is Stop.Value, checked while the state is Running, makes the
\* listener set Stopping.
C10_StrippedStopLineStops ==
    [][(/\ ipc = "i_check" /\ ipc' # ipc
        /\ state = ProcessRunningState
        /\ stripAnsi
        /\ stopType = ProcessStopCommand
        /\ iline # StopValue
        /\ StripAnsi(iline) = StopValue)
       => ipc' = "i_setStopping"]_vars

\* C10, amended: the data compared with Stop.Value is the stripped line only if the
\* line was taken while the state was Starting and StripAnsi is set; otherwise it is
\* the line as published, escape sequences included, and the listener goes on to
\* SetState(Stopping) only if that data equals Stop.Value.
C10_StopComparesDataAsLeft ==
    [][/\ (ipc = "idle" /\ ipc' # "idle")
            => idata' = (IF state = ProcessStartingState /\ stripAnsi
                         THEN StripAnsi(iline') ELSE iline')
       /\ (ipc # "idle" /\ ipc' # "idle") => (idata' = idata /\ iline' = iline)
       /\ (ipc = "i_check" /\ ipc' = "i_setStopping") => idata = StopValue]_vars

\* With StripAnsi and Command, a line with an escape sequence whose stripped form is
\* Stop.Value was taken while Running and is compared as published.
C10_Witness ==
    /\ stripAnsi
    /\ stopType = ProcessStopCommand
    /\ state = ProcessRunningState
    /\ ipc = "i_check"
    /\ iline = <<ESC, "s">>
    /\ idata = iline

\* ----------------------------------------------------- traced observations
\* the positions of event x in the log of a call
Pos(r, x) == {i \in 1..Len(r.log) : r.log[i] = x}

Has(r, x) == Pos(r, x) # {}

\* every x in the log comes after some y
Follows(r, x, y) == \A i \in Pos(r, x) : \E j \in Pos(r, y) : j < i

\* the frame of the caller of a traced run
Me == th[First]

\* C11 as stated: WaitForStop issues a kill only after the deadline and only with
\* terminate = true; at the deadline with terminate = false it returns an error; if
\* the initial Stop fails it returns the error without waiting.
C11_KillOnlyAfterDeadline ==
    (tracing /\ Me.op = "WaitForStop")
    => /\ Follows(Me, "kill", "deadline")
       /\ Has(Me, "kill") => Me.term
       /\ (Has(Me, "deadline") /\ ~Me.term) => (Me.pc = "done" /\ Me.ret = "err")
       /\ (Has(Me, "deadline") /\ Me.term) => Me.pc \in {"Te_inspect", "Te_setStopping", "Te_kill", "Te_setOffline", "done"}
       /\ (Me.pc = "done" /\ ~Has(Me, "wait")) => Me.ret = "err"

\* C11, amended: the above holds of every kill but the one that the initial Stop
\* itself is when Stop.Type = Signal (Stop is then Terminate with KILL, before any
\* wait): with Command every kill follows the deadline and needs terminate = true;
\* with either type no kill follows a deadline when terminate = false, and a kill
\* before the wait is the single one of a Signal stop.
C11_KillOnlyByStopOrAfterDeadline ==
    (tracing /\ Me.op = "WaitForStop")
    => /\ stopType = ProcessStopCommand
            => (Follows(Me, "kill", "deadline") /\ (Has(Me, "kill") => Me.term))
       /\ \A i \in Pos(Me, "kill") :
            \/ stopType = ProcessStopSignal /\ \A j \in Pos(Me, "wait") : i < j
            \/ Me.term /\ \E j \in Pos(Me, "deadline") : j < i
       /\ Cardinality(Pos(Me, "kill")) <= 2
       /\ (stopType = ProcessStopCommand) => Cardinality(Pos(Me, "kill")) <= 1
       /\ (Has(Me, "deadline") /\ ~Me.term) => (Me.pc = "done" /\ Me.ret = "err")
       /\ (Has(Me, "deadline") /\ Me.term) => Me.pc \in {"Te_inspect", "Te_setStopping", "Te_kill", "Te_setOffline", "done"}
       /\ (Me.pc = "done" /\ ~Has(Me, "wait")) => Me.ret = "err"

\* WaitForStop with terminate = true and a Command stop: the stop command was sent, the
\* deadline passed with the container still running, and the kill was sent.
C11_Witness ==
    /\ tracing
    /\ Me.op = "WaitForStop"
    /\ Me.term
    /\ stopType = ProcessStopCommand
    /\ Me.log = <<ProcessStoppingState, "send", "wait", "deadline", ProcessStoppingState, "kill">>

\* the step in which the traced call returns e from operation o
Returns(o, e) == Me.pc # "done" /\ Me'.pc = "done" /\ Me'.op = o /\ Me'.ret = e

\* C12 as stated: when WaitForStop returns success the state is Offline.
C12_WaitForStopEndsOffline ==
    [][Returns("WaitForStop", "nil") => state' = ProcessOfflineState]_vars

\* C12, amended: when WaitForStop returns success the container is not running (it
\* was seen stopped by the wait or by Terminate, or the kill succeeded); the state is
\* whatever Stop, Terminate and the close handler have made it by then.
C12_WaitForStopEndsStopped ==
    [][Returns("WaitForStop", "nil") => container' # "running"]_vars

\* WaitForStop has returned success on a stopped container and the state is Stopping.
C12_Witness ==
    /\ tracing
    /\ Me.op = "WaitForStop"
    /\ Me.pc = "done"
    /\ Me.ret = "nil"
    /\ Me.log = <<ProcessStoppingState, "stop", "wait">>
    /\ container = "stopped"
    /\ state = ProcessStoppingState

\* C13: a Destroy that returns success has set Stopping and then Offline, and leaves
\* the state Offline and no container.
C13_DestroyEndsOffline ==
    [][Returns("Destroy", "nil")
       => /\ StatesSet(Me') = <<ProcessStoppingState, ProcessOfflineState>>
          /\ state' = ProcessOfflineState
          /\ container' = "absent"]_vars

\* C14: a Stop, Destroy or InSituUpdate to which the runtime has reported that the
\* container does not exist returns success.
C14_NotFoundIsSuccess ==
    [][\A o \in {"Stop", "Destroy", "InSituUpdate"} :
          \A e \in {"nil", "err"} :
             (Returns(o, e) /\ Has(Me', "notfound")) => e = "nil"]_vars

\* C15: a Create that finds the container returns success at once, with no image
\* pull and no create request; no step of a Create writes the state, and the only
\* change a Create makes to the runtime is the creation of an absent container.
C15_CreateIsIdempotent ==
    [][(Me.op = "Create" /\ Me' # Me)
       => /\ state' = state
          /\ container' # container
                => (Me.pc = "Cr_create" /\ container = "absent" /\ container' = "stopped")
          /\ (Me.pc = "Cr_inspect" /\ container # "absent") => Me'.pc = "done"
          /\ Has(Me', "exists")
                => /\ Me'.pc \in {"done", "idle"}
                   /\ Me'.ret = "nil"
                   /\ Me'.log = <<"exists">>
                   /\ container' = container]_vars

\* A Create invoked on a server whose container exists found it and changed nothing.
C15_Witness ==
    /\ tracing
    /\ Me.op = "Create"
    /\ Me.pc = "done"
    /\ Me.ret = "nil"
    /\ Me.log = <<"exists">>
    /\ Me.at = <<ProcessOfflineState, "stopped", FALSE>>
    /\ container = "stopped"
    /\ state = ProcessOfflineState
    /\ sessions = 0

C17_OnBeforeStartRecreates ==
    [][(Me' # Me)
       => /\ (Me.pc = "OBS_remove" /\ Me'.pc = "Cr_inspect") => container' = "absent"
          /\ (Me.pc = "OBS_remove" /\ Me'.pc # "Cr_inspect")
                => /\ Me'.pc = "St_defer"
                   /\ Me'.ret = "err"
                   /\ ~Has(Me', "create") /\ ~Has(Me', "exists")
                   /\ container' = container
          /\ (Me.pc # "St_start" /\ Me'.pc = "St_start")
                => /\ Me.pc = "Cr_create"
                   /\ container = "absent"
                   /\ container' = "stopped"
                   /\ Follows(Me', "create", "remove")]_vars

\* A Start on a stopped container: OnBeforeStart removed it and created another.
C17_Witness ==
    /\ tracing
    /\ Me.op = "Start"
    /\ Me.pc = "St_start"
    /\ Me.at[2] = "stopped"
    /\ Me.log = <<"truncate", ProcessStartingState, "remove", "pull", "create">>
    /\ container = "stopped"

\* where a call is while it is inside OnBeforeStart, inside Attach
InOnBeforeStart == {"OBS_remove", "Cr_inspect", "Cr_image", "Cr_create"}
InAttach == {"At_check", "Fo_exists", "Fo_logs", "At_attach"}

\* C18: a Start that found its container not running sets Starting and then enters
\* OnBeforeStart; it issues the container-start request only after OnBeforeStart has
\* returned success, and calls Attach only after that request has succeeded; an error
\* from OnBeforeStart or from the request leads to the deferred function and the
\* return, with no start request and no Attach after it.
C18_StartOrder ==
    [][(Me.op \in {"Start", "Restart"} /\ Me' # Me)
       => /\ Me'.pc = "OBS_remove"
                => /\ Me.pc = "St_setStarting"
                   /\ state' = ProcessStartingState
                   /\ ~Has(Me', "remove") /\ ~Has(Me', "start")
          /\ (Me.pc \in InOnBeforeStart /\ Me'.pc \notin InOnBeforeStart)
                => \/ Me'.pc = "St_start" /\ Me'.ret = "nil" /\ ~Has(Me', "start")
                   \/ Me'.pc = "St_defer" /\ Me'.ret = "err"
          /\ Me'.pc = "St_start" => Me.pc \in InOnBeforeStart
          /\ Me.pc = "St_start"
                => /\ Has(Me', "start")
                   /\ \/ Me'.pc = "At_check" /\ Me'.ret = "nil" /\ container' = "running"
                      \/ Me'.pc = "St_defer" /\ Me'.ret = "err"
          /\ (Me'.pc \in InAttach /\ Has(Me', ProcessStartingState))
                => /\ Me.pc \in InAttach \cup {"St_start"}
                   /\ Follows(Me', "start", "remove")
                   /\ Follows(Me', "remove", ProcessStartingState)
                   /\ Has(Me', "start")
          /\ Me.pc \in {"St_defer", "St_defer2"}
                => /\ Me'.pc \in {"St_defer2", "done"}
                   /\ Me'.ret = "err"
                   /\ Me'.log \in {Me.log, Append(Me.log, ProcessStoppingState),
                                   Append(Me.log, ProcessOfflineState)}]_vars

\* A Start on a stopped container went through every step and attached.
C18_Witness ==
    /\ tracing
    /\ Me.op = "Start"
    /\ Me.pc = "done"
    /\ Me.ret = "nil"
    /\ Me.at[2] = "stopped"
    /\ Me.log = <<"truncate", ProcessStartingState, "remove", "pull", "create", "start",
                  "logs", "attach">>
    /\ container = "running"

\* C19: a Start whose inspection finds the container running goes to setState(Running)
\* and from there into Attach; such a call never removes, creates, truncates or
\* starts anything and never sets Starting.
C19_StartOnRunningOnlyAttaches ==
    [][(Me.op = "Start" /\ Me' # Me)
       => /\ (Me.pc = "St_inspect" /\ container = "running")
                => \/ Me'.pc = "St_setRunning" /\ Me'.log = <<>>
                   \/ Me'.pc = "done" /\ Me'.ret = "err" /\ Me'.log = <<>>
          /\ Me.pc = "St_setRunning"
                => /\ state' = ProcessRunningState
                   /\ Me'.log = <<ProcessRunningState>>
                   /\ Me'.pc = "At_check"
          /\ (Me'.log # <<>> /\ Me'.log[1] = ProcessRunningState)
                => /\ Me'.pc \in InAttach \cup {"done"}
                   /\ \A x \in {"remove", "exists", "pull", "pullfail", "create", "truncate",
                                "start", ProcessStartingState} : ~Has(Me', x)]_vars

\* A Start on a running container set Running and attached, and did nothing else.
C19_Witness ==
    /\ tracing
    /\ Me.op = "Start"
    /\ Me.pc = "done"
    /\ Me.ret = "nil"
    /\ Me.at = <<ProcessOfflineState, "running", FALSE>>
    /\ Me.log = <<ProcessRunningState, "logs", "attach">>
    /\ IsAttached

\* C20: a Terminate whose inspection finds a container that is not running returns
\* success at once: no kill, no state change.  On a running container it sets
\* Stopping, then sends the kill, and when the kill succeeds sets Offline and
\* returns success.
C20_TerminateSkipsStoppedKillsRunning ==
    [][(Me.op = "Terminate" /\ Me' # Me)
       => /\ (Me.pc = "Te_inspect" /\ container = "stopped" /\ ~Has(Me', "fail"))
                => /\ Me'.pc = "done"
                   /\ Me'.ret = "nil"
                   /\ Me'.log = <<>>
                   /\ UNCHANGED <<state, container, exitBy, stopReq>>
          /\ (Me.pc = "Te_inspect" /\ container = "running" /\ ~Has(Me', "fail"))
                => Me'.pc = "Te_setStopping" /\ Me'.log = <<>>
          /\ Me.pc = "Te_setStopping"
                => /\ state' = ProcessStoppingState
                   /\ Me'.pc = "Te_kill"
                   /\ Me'.log = <<ProcessStoppingState>>
                   /\ container' = container
          /\ (Me.pc = "Te_kill" /\ container = "running" /\ container' # "running")
                => /\ Me'.pc = "Te_setOffline"
                   /\ Me'.log = <<ProcessStoppingState, "kill">>
          /\ Me.pc = "Te_setOffline"
                => /\ state' = ProcessOfflineState
                   /\ Me'.pc = "done"
                   /\ Me'.ret = "nil"
                   /\ Me'.log = <<ProcessStoppingState, "kill", ProcessOfflineState>>]_vars

\* A Terminate on a running container: Stopping, the kill, Offline, success.
C20_Witness ==
    /\ tracing
    /\ Me.op = "Terminate"
    /\ Me.pc = "done"
    /\ Me.ret = "nil"
    /\ Me.at[2] = "running"
    /\ Me.log = <<ProcessStoppingState, "kill", ProcessOfflineState>>
    /\ container = "stopped"
    /\ state = ProcessOfflineState

\* the attach goroutines that are pumping, or about to pump, an attach stream
Pumps == {k \in 1..MaxSessions : hpc[k] \in {"start", "copy"} /\ (hpc[k] = "copy" => hb[k] \in open)}

\* C21: at any time at most one attach-stream pump and at most one log follower
\* started by Attach are active for the server.
C21_OnePumpOneFollower ==
    /\ followers <= 1
    /\ Cardinality(Pumps) <= 1

\* ------------------------------------- Filesystem.SpaceAvailableForDecompression
MaxEntries == 2

\* DiskSpace() in megabytes; disk usage and entry sizes in bytes
Quotas == {-1, 0, 1, 2}
Usages == {0, 999999, 1000000, 1000001}
Sizes == {1, 999999, 1000000}
Archives == UNION {[1..n -> Sizes] : n \in 0..MaxEntries}

RECURSIVE Total(_)
Total(a) == IF a = <<>> THEN 0 ELSE Head(a) + Total(Tail(a))

\* the power side at rest
Still ==
    /\ Boot
    /\ stopType = ProcessStopSignal
    /\ ~stripAnsi
    /\ container = "stopped"

InitSpace ==
    /\ tracing = FALSE
    /\ Still
    /\ dz = DzOff /\ ins = InsOff /\ ex = ExOff
    /\ \E q \in Quotas, u \in Usages, a \in Archives :
        sp = [SpOff EXCEPT !.pc = "begin", !.quota = q, !.usage = u, !.archive = a]

SpaceStep(r) ==
    /\ sp' = r
    /\ UNCHANGED <<dz, ins, ex, tracing, stopType, stripAnsi, state, container, stopReq, exitBy, stream,
                   sessions, open, followers, hpc, hb, delivered, ipc, idata, iline, th, calls,
                   intervened, panicked>>

\* if fs.Server.DiskSpace() <= 0 { return true, nil }
Sa_check ==
    /\ sp.pc = "begin"
    /\ SpaceStep(IF sp.quota <= 0
                 THEN [sp EXCEPT !.pc = "done", !.ret = TRUE]
                 ELSE [sp EXCEPT !.pc = "safePath"])

\* fs.SafePath(...), then the two `go func()` statements
Sa_safePath ==
    /\ sp.pc = "safePath"
    /\ \/ SpaceStep([sp EXCEPT !.pc = "done", !.ret = FALSE, !.err = TRUE])
       \/ SpaceStep([sp EXCEPT !.pc = "wait", !.gu = "add", !.gw = "add"])

\* first goroutine: wg.Add(1)
Gu_add ==
    /\ sp.gu = "add"
    /\ SpaceStep([sp EXCEPT !.gu = "run", !.wg = @ + 1])

\* dirSize, cErr = fs.getCachedDiskUsage(true), and the deferred wg.Done()
Gu_run ==
    /\ sp.gu = "run"
    /\ \/ SpaceStep([sp EXCEPT !.gu = "done", !.wg = @ - 1, !.dirSize = sp.usage])
       \/ SpaceStep([sp EXCEPT !.gu = "done", !.wg = @ - 1, !.cErr = TRUE])

\* second goroutine: wg.Add(1)
Gw_add ==
    /\ sp.gw = "add"
    /\ SpaceStep([sp EXCEPT !.gw = "run", !.wg = @ + 1])

\* archiver.Walk: atomic.AddInt64(&size, f.Size()) for the next entry
Gw_walk ==
    /\ sp.gw = "run"
    /\ sp.n < Len(sp.archive)
    /\ SpaceStep([sp EXCEPT !.n = @ + 1, !.size = @ + sp.archive[sp.n + 1]])

\* the walk is over: the deferred wg.Done()
Gw_done ==
    /\ sp.gw = "run"
    /\ sp.n = Len(sp.archive)
    /\ SpaceStep([sp EXCEPT !.gw = "done", !.wg = @ - 1])

\* wg.Wait() returns when the counter is zero;
\* return ((dirSize + size) / 1000.0 / 1000.0) <= fs.Server.DiskSpace(), cErr
Sa_wait ==
    /\ sp.pc = "wait"
    /\ sp.wg = 0
    /\ SpaceStep([sp EXCEPT !.pc = "done",
                            !.ret = (((sp.dirSize + sp.size) \div 1000) \div 1000) <= sp.quota,
                            !.err = sp.cErr,
                            !.seen = <<sp.dirSize, sp.size>>,
                            !.final = (sp.gu = "done" /\ sp.gw = "done")])

NextSpace ==
    \/ Sa_check
    \/ Sa_safePath
    \/ Gu_add
    \/ Gu_run
    \/ Gw_add
    \/ Gw_walk
    \/ Gw_done
    \/ Sa_wait

SpecSpace == InitSpace /\ [][NextSpace]_vars

\* C22: a call that returns no error answers true when the quota is <= 0, without
\* starting either computation; with a quota > 0 it answers false exactly when
\* usage + archive total exceeds the quota, however small the excess.
C22_FalseIffOverQuota ==
    (sp.pc = "done" /\ ~sp.err)
    => /\ sp.quota <= 0 => (sp.ret /\ sp.gu = "off" /\ sp.gw = "off")
       /\ (sp.quota > 0 /\ sp.final)
            => (~sp.ret <=> sp.usage + Total(sp.archive) > sp.quota * 1000 * 1000)

\* C23: with a quota > 0 the values compared against the quota are the final disk
\* usage and the full sum of the archive's entry sizes.
C23_DecidesOnFinalValues ==
    (sp.pc = "done" /\ ~sp.err /\ sp.quota > 0)
    => sp.seen = <<sp.usage, Total(sp.archive)>>

\* ------------------------------------------------- Filesystem.DecompressFile
MaxFiles == 3

\* entry names as path components below the data root
Names == {<<"a">>, <<"b">>, <<"a", "..", "b">>, <<"..", "a">>}
\* a directory, a file, or an entry whose header is of no known type
Kinds == {"dir", "file", "raw"}
Entries == [kind : Kinds, name : Names]
Tarballs == UNION {[1..n -> Entries] : n \in 0..MaxFiles}

\* the path a name resolves to below the root; <<"..">> once it has left the root
RECURSIVE Resolve(_, _)
Resolve(at, name) ==
    IF name = <<>> THEN at
    ELSE IF Head(name) = ".."
         THEN IF at = <<>> THEN <<"..">> ELSE Resolve(SubSeq(at, 1, Len(at) - 1), Tail(name))
         ELSE Resolve(Append(at, Head(name)), Tail(name))

\* SafePath succeeds for a name that resolves to a descendant of the root
SafePath(name) == Resolve(<<>>, name) # <<"..">>

InitUnpack ==
    /\ tracing = FALSE
    /\ Still
    /\ sp = SpOff /\ ins = InsOff /\ ex = ExOff
    /\ \E a \in Tarballs : dz = [DzOff EXCEPT !.pc = "begin", !.entries = a]

UnpackStep(r) ==
    /\ dz' = r
    /\ UNCHANGED <<sp, ins, ex, tracing, stopType, stripAnsi, state, container, stopReq, exitBy, stream,
                   sessions, open, followers, hpc, hb, delivered, ipc, idata, iline, th, calls,
                   intervened, panicked>>

\* fs.SafePath(filepath.Join(dir, file)) and os.Stat(source)
Dz_source ==
    /\ dz.pc = "begin"
    /\ \/ UnpackStep([dz EXCEPT !.pc = "done", !.ret = "err"])
       \/ UnpackStep([dz EXCEPT !.pc = "walk"])

\* fs.Writefile(name, f): the target goes through SafePath before anything is written
Writefile(r, e) ==
    IF SafePath(e.name)
    THEN [r EXCEPT !.i = @ + 1, !.wrote = Append(@, r.i + 1),
                   !.disk = @ \cup {Resolve(<<>>, e.name)}]
    ELSE [r EXCEPT !.pc = "done", !.ret = "err"]

\* a walk that goes on to the next entry after an entry has failed
Dz_walkOn ==
    /\ dz.pc = "walk"
    /\ IF dz.i = Len(dz.entries)
       THEN UnpackStep([dz EXCEPT !.pc = "done", !.ret = "nil"])
       ELSE LET e == dz.entries[dz.i + 1]
            IN \/ e.kind = "dir" /\ UnpackStep([dz EXCEPT !.i = @ + 1])
               \/ e.kind = "raw" /\ UnpackStep([dz EXCEPT !.i = @ + 1])
               \/ /\ e.kind = "file"
                  /\ \/ UnpackStep([Writefile(dz, e) EXCEPT !.pc = "walk", !.ret = "none",
                                                            !.i = dz.i + 1])
                     \/ UnpackStep([dz EXCEPT !.i = @ + 1])

\* archiver.Walk: the callback on the next entry; the walk ends at the first error
Dz_walk ==
    /\ dz.pc = "walk"
    /\ IF dz.i = Len(dz.entries)
       THEN UnpackStep([dz EXCEPT !.pc = "done", !.ret = "nil"])
       ELSE LET e == dz.entries[dz.i + 1]
            IN \/ e.kind = "dir" /\ UnpackStep([dz EXCEPT !.i = @ + 1])
               \/ e.kind = "raw" /\ UnpackStep([dz EXCEPT !.pc = "done", !.ret = "err"])
               \/ /\ e.kind = "file"
                  /\ \/ UnpackStep(Writefile(dz, e))
                     \/ UnpackStep([dz EXCEPT !.pc = "done", !.ret = "err"])  \* the write fails

NextUnpack ==
    \/ Dz_source
    \/ Dz_walk

SpecUnpack == InitUnpack /\ [][NextUnpack]_vars

\* the entries of the archive that leave the root
Slips == {k \in 1..Len(dz.entries) :
            dz.entries[k].kind = "file" /\ ~SafePath(dz.entries[k].name)}
\* the file entries among the first n
FilesUpTo(n) == {k \in 1..n : dz.entries[k].kind = "file"}

\* C24: entries are written in archive order and directories are skipped; nothing is
\* written outside the root; no entry at or after the first one that leaves the root
\* is written, and the extraction that met it has returned an error; a file once
\* written stays on disk, also when the extraction fails.
C24_ExtractionStopsAtSlip ==
    [][/\ \A j \in 1..Len(dz'.wrote) :
            /\ dz'.entries[dz'.wrote[j]].kind = "file"
            /\ j > 1 => dz'.wrote[j - 1] < dz'.wrote[j]
       /\ {dz'.wrote[j] : j \in 1..Len(dz'.wrote)} = FilesUpTo(dz'.i)
       /\ \A p \in dz'.disk : p # <<"..">>
       /\ dz'.disk = {Resolve(<<>>, dz'.entries[k].name) : k \in FilesUpTo(dz'.i)}
       /\ \A k \in Slips : dz'.i < k
       /\ (dz'.pc = "done" /\ dz'.ret = "nil") => (Slips = {} /\ dz'.i = Len(dz'.entries))
       /\ (dz'.pc = "done" /\ dz'.i < Len(dz'.entries)) => dz'.ret = "err"
       /\ dz.disk \subseteq dz'.disk]_vars

\* An extraction wrote its first entry, met a second entry that leaves the root and
\* failed there: the first file is on disk, the third entry was never written.
C24_Witness ==
    /\ dz.pc = "done"
    /\ dz.ret = "err"
    /\ Len(dz.entries) = 3
    /\ dz.entries[1] = [kind |-> "file", name |-> <<"a">>]
    /\ dz.entries[2] = [kind |-> "file", name |-> <<"..", "a">>]
    /\ dz.entries[3] = [kind |-> "file", name |-> <<"b">>]
    /\ dz.wrote = <<1>>
    /\ dz.disk = {<<"a">>}

\* ------------------------------------------------------------ installer.New
\* what getString finds under a key: "" when the key is absent
Strings == {"", "text", "uuid1", "uuid4"}
\* a JSON value under a key: none, one that does not unmarshal, one that does
Values == {"absent", "bad", "ok"}

\* govalidator.IsUUIDv4
IsUUIDv4(x) == x = "uuid4"

InitNew ==
    /\ tracing = FALSE
    /\ Still
    /\ sp = SpOff /\ dz = DzOff /\ ex = ExOff
    /\ \E u \in Strings, g \in Strings, e \in Values, m \in Values :
        ins = [InsOff EXCEPT !.pc = "uuid", !.uuid = u, !.egg = g, !.environment = e,
                             !.mappings = m]

NewStep(r) ==
    /\ ins' = r
    /\ UNCHANGED <<sp, dz, ex, tracing, stopType, stripAnsi, state, container, stopReq, exitBy,
                   stream, sessions, open, followers, hpc, hb, delivered, ipc, idata, iline, th,
                   calls, intervened, panicked>>

\* if !govalidator.IsUUIDv4(getString(data, "uuid")) { return nil, NewValidationError(...) }
In_uuid ==
    /\ ins.pc = "uuid"
    /\ NewStep(IF IsUUIDv4(ins.uuid)
               THEN [ins EXCEPT !.pc = "egg"]
               ELSE [ins EXCEPT !.pc = "done", !.ret = "validation"])

\* if !govalidator.IsUUIDv4(getString(data, "service", "egg")) { ... }
In_egg ==
    /\ ins.pc = "egg"
    /\ NewStep(IF IsUUIDv4(ins.egg)
               THEN [ins EXCEPT !.pc = "environment"]
               ELSE [ins EXCEPT !.pc = "done", !.ret = "validation"])

\* jsonparser.Get(data, "environment") fails on a missing key, json.Unmarshal on a bad value
In_environment ==
    /\ ins.pc = "environment"
    /\ NewStep(IF ins.environment = "ok"
               THEN [ins EXCEPT !.pc = "mappings"]
               ELSE [ins EXCEPT !.pc = "done", !.ret = "error"])

\* jsonparser.Get(data, "allocations", "mappings"), json.Unmarshal
In_mappings ==
    /\ ins.pc = "mappings"
    /\ NewStep(IF ins.mappings = "ok"
               THEN [ins EXCEPT !.pc = "fetch"]
               ELSE [ins EXCEPT !.pc = "done", !.ret = "error"])

\* api.NewRequester().GetServerConfiguration(cfg.Uuid), server.FromConfiguration(c)
In_fetch ==
    /\ ins.pc = "fetch"
    /\ \/ NewStep([ins EXCEPT !.pc = "done", !.fetched = TRUE, !.ret = "error"])
       \/ NewStep([ins EXCEPT !.pc = "done", !.fetched = TRUE, !.ret = "ok"])

NextNew ==
    \/ In_uuid
    \/ In_egg
    \/ In_environment
    \/ In_mappings
    \/ In_fetch

SpecNew == InitNew /\ [][NextNew]_vars

\* C25: New returns a validation error exactly when uuid or service.egg is not a
\* UUIDv4, and a request in which both are valid reaches the Panel configuration
\* fetch whatever other fields are absent.
C25_OnlyUuidsAreRequired ==
    ins.pc = "done"
    => /\ ins.ret = "validation" <=> ~(IsUUIDv4(ins.uuid) /\ IsUUIDv4(ins.egg))
       /\ (IsUUIDv4(ins.uuid) /\ IsUUIDv4(ins.egg)
           /\ ins.environment # "bad" /\ ins.mappings # "bad") => ins.fetched

\* -------------------------------------------------------- Installer.Execute
MaxRuns == 3

\* a server about to be installed; an installation before this one may have left
\* the data directory, and a container that has never run
InitInstall ==
    /\ tracing = TRUE
    /\ Boot
    /\ stopType = ProcessStopSignal
    /\ ~stripAnsi
    /\ container \in {"absent", "stopped"}
    /\ sp = SpOff /\ dz = DzOff /\ ins = InsOff
    /\ ex \in {[dir |-> FALSE, owned |-> FALSE], [dir |-> TRUE, owned |-> FALSE],
               [dir |-> TRUE, owned |-> TRUE]}

\* a step of Execute that works on the data directory
DirStep(t, r, d) ==
    /\ th' = [th EXCEPT ![t] = r]
    /\ ex' = d
    /\ UNCHANGED <<sp, dz, ins, tracing, stopType, stripAnsi, state, container, stopReq, exitBy,
                   stream, sessions, open, followers, hpc, hb, delivered, ipc, idata, iline,
                   intervened, panicked>>

\* the installer is run, again after an earlier run has returned
Ex_invoke(t) ==
    /\ t = First
    /\ th[t].pc \in {"idle", "done"}
    /\ calls < MaxRuns
    /\ calls' = calls + 1
    /\ DirStep(t, [Entry("Execute", FALSE) EXCEPT !.at = <<state, container, IsAttached>>], ex)

\* an Execute that goes on to the chown although the directory could not be made
Ex_mkdirGoesOn(t) ==
    /\ th[t].pc = "Ex_mkdir"
    /\ UNCHANGED calls
    /\ \/ DirStep(t, Go(Log(th[t], "mkdir"), "Ex_chown"), [ex EXCEPT !.dir = TRUE])
       \/ DirStep(t, Go(Log(th[t], "mkdirfail"), "Ex_chown"), ex)

\* os.MkdirAll(p, 0755): nothing to do when the directory is there
Ex_mkdir(t) ==
    /\ th[t].pc = "Ex_mkdir"
    /\ UNCHANGED calls
    /\ \/ DirStep(t, Go(Log(th[t], "mkdir"), "Ex_chown"), [ex EXCEPT !.dir = TRUE])
       \/ DirStep(t, Ret(Log(th[t], "mkdirfail"), "err"), ex)

\* os.Chown(p, uid, gid), then i.server.Environment.Create()
Ex_chown(t) ==
    /\ th[t].pc = "Ex_chown"
    /\ UNCHANGED calls
    /\ \/ ex.dir /\ DirStep(t, Go(Log(th[t], "chown"), "Cr_inspect"), [ex EXCEPT !.owned = TRUE])
       \/ DirStep(t, Ret(Log(th[t], "chownfail"), "err"), ex)

NextInstall ==
    \/ \E t \in Callers :
        \/ Ex_invoke(t)
        \/ Ex_mkdir(t)
        \/ Ex_chown(t)
        \/ Cr_inspect(t)
        \/ Cr_image(t)
        \/ Cr_create(t)

SpecInstall == InitInstall /\ [][NextInstall]_vars

\* C26: Execute makes the directory, then chowns it, then calls Create; a step that
\* fails ends the run at once with nothing later done and nothing made earlier
\* undone; a run in which every step succeeds, whatever failed in the runs before
\* it, ends with the directory present, owned, and the container created.
C26_ExecuteStepsInOrder ==
    [][(Me.op = "Execute" /\ Me' # Me /\ Me.pc # "done")
       => /\ Me'.pc = "Ex_chown" => (Me.pc = "Ex_mkdir" /\ ex'.dir)
          /\ Me'.pc = "Cr_inspect" => (Me.pc = "Ex_chown" /\ ex'.dir /\ ex'.owned)
          /\ (Me.pc \in {"Ex_mkdir", "Ex_chown"} /\ Me'.pc \notin {"Ex_chown", "Cr_inspect"})
                => /\ Me'.pc = "done"
                   /\ Me'.ret = "err"
                   /\ UNCHANGED <<ex, container>>
          /\ (Has(Me', "mkdirfail") \/ Has(Me', "chownfail"))
                => (~Has(Me', "create") /\ ~Has(Me', "exists") /\ ~Has(Me', "pull")
                    /\ ~Has(Me', "pullfail") /\ Me'.pc = "done")
          /\ Has(Me', "mkdirfail") => ~Has(Me', "chown")
          /\ (Has(Me', "create") \/ Has(Me', "exists")) => Follows(Me', "chown", "mkdir")
          /\ ex.dir => ex'.dir
          /\ ex.owned => ex'.owned
          /\ container # "absent" => container' = container
          /\ (Me'.pc = "done" /\ Me'.ret = "nil")
                => (ex'.dir /\ ex'.owned /\ container' # "absent")]_vars

\* Two runs returned without a container, so each failed at some step; the third run
\* made and chowned the directory, created the container and completed.
C26_Witness ==
    /\ tracing
    /\ calls = 3
    /\ Me.op = "Execute"
    /\ Me.pc = "done"
    /\ Me.ret = "nil"
    /\ Me.log = <<"mkdir", "chown", "pull", "create">>
    /\ Me.at[2] = "absent"
    /\ ex.dir /\ ex.owned
    /\ container = "stopped"

\* where a call is while it is inside Start
InStart == {"St_inspect", "St_setRunning", "St_setStarting", "St_start", "St_defer", "St_defer2"}
               \cup InOnBeforeStart \cup InAttach

\* C27: a Restart invoked while the container is stopped or absent, for either stop
\* type, reaches Start unless a request to the runtime fails in transport, and what
\* it returns is what Start returned.
C27_RestartStartsStoppedServer ==
    [][(Me.op = "Restart" /\ Me.at[2] # "running" /\ Me.pc # "done" /\ Me'.pc = "done"
          /\ ~Has(Me', "fail"))
       => Me.pc \in InStart]_vars

\* C28: when Attach returns an error, no goroutine has touched a log reader that was
\* never obtained, no log follower is left publishing console lines, and the stream
\* handle is unset.
C28_FailedAttachLeavesNothing ==
    [][(Me.pc \in InAttach /\ Me'.pc \notin InAttach /\ Me'.ret = "err")
       => /\ ~panicked'
          /\ followers' = 0
          /\ stream' = 0]_vars

\* C29: once a Restart or a Start has started the container and returned success, and
\* while that container is running, the stream handle is the one its own Attach
\* established and the state has not been set to Offline.
C29_OldHandlerLeavesNewStartAlone ==
    (/\ Me.op \in {"Start", "Restart"}
     /\ Me.pc = "done"
     /\ Me.ret = "nil"
     /\ Has(Me, "start")
     /\ container = "running")
    => /\ Has(Me, "attach")
       /\ stream # 0
       /\ stream = sessions
       /\ state # ProcessOfflineState

\* ----------------------------------------------------------------- fairness
\* the goroutines of Attach and the console listener, once started, keep running
Background ==
    \/ \E k \in 1..MaxSessions : h_start(k) \/ h_copy(k) \/ h_setOffline(k) \/ h_clear(k)
    \/ i_setRunning \/ i_check \/ i_setStopping

SpecLive == InitTrace /\ [][NextTrace]_vars /\ WF_vars(Background)

\* every operation has returned and no other can be invoked
Quiet == calls = MaxCalls /\ \A t \in Callers : th[t].pc \in {"idle", "done"}

\* C30: from a state in which the state is Stopping, the container is not running and
\* no operation is running or will be invoked, the state eventually becomes Offline.
C30_StoppingIsNotPermanent ==
    (state = ProcessStoppingState /\ container # "running" /\ Quiet)
        ~> (state = ProcessOfflineState)

====
